---- MODULE Spec2Model ----
(***************************************************************************)
(* SyncMate backend: the user-onboarding workflow (loginOrCreateAccount-   *)
(* Service, registerUserService) and the credential verifier               *)
(* (verifyUserService) of the auth service, run against a document store   *)
(* with multi-document transactions.                                       *)
(*                                                                         *)
(* Every invocation of a service is a call slot p.  An action is one       *)
(* awaited store operation completing, together with the synchronous code  *)
(* that runs up to the next await (JavaScript runs to the next await       *)
(* without interleaving).  Writes made with { session } are staged in the  *)
(* session and reach the committed store db only in commitTransaction.     *)
(* ObjectIds are fresh per document: the documents created by call p carry *)
(* the id <<collection, p>>.                                               *)
(***************************************************************************)
EXTENDS Integers, Naturals, Sequences, FiniteSets, TLC

\* ---------------------------------------------------------------- bounds
MaxCalls == 3        \* service invocations in one behaviour
MaxOpen  == 2        \* invocations in flight at the same time
MaxFaults == 1       \* store operations that fail for a reason outside the model

Calls == 1..MaxCalls

\* ---------------------------------------------------------------- inputs
Passwords == {"pw1", "pw2"}

\* schema option lowercase: true of userSchema.email (setter, also run on
\* query filters)
Lowercase(email) == IF email = "A@x" THEN "a@x" ELSE email

ProviderEnum == {"GOOGLE", "GITHUB", "FACEBOOK", "EMAIL"}

\* data of loginOrCreateAccountService
LoginData ==
  { [provider |-> "GOOGLE", providerId |-> "g1", displayName |-> "Ann",
     email |-> "a@x", picture |-> "pic"],
    [provider |-> "GITHUB", providerId |-> "g2", displayName |-> "ANN",
     email |-> "A@x", picture |-> ""],
    [provider |-> "EMAIL", providerId |-> "a@x", displayName |-> "Bob",
     email |-> "b@y", picture |-> ""] }

\* body of registerUserService
RegisterBodies ==
  { [email |-> "a@x", name |-> "Ann", password |-> "pw1"],
    [email |-> "A@x", name |-> "Ann", password |-> "pw2"] }

\* parameters of verifyUserService (provider defaults to EMAIL)
VerifyParams ==
  { [email |-> "a@x", password |-> w, provider |-> "EMAIL"] : w \in Passwords }
  \cup { [email |-> "A@x", password |-> "pw2", provider |-> "EMAIL"] }

\* ---------------------------------------------------------------- values
\* ObjectIds: the document of collection kind created by call p; ids of
\* different collections never coincide
ObjectId(kind, p) == <<kind, p>>
NoId == <<"none", 0>>           \* an unset ObjectId reference

\* A password value is <<text, n>>: text after n applications of hashValue;
\* <<>> is an absent (undefined) password.
NoPassword == << >>
Plain(w) == <<w, 0>>
hashValue(v) == <<v[1], v[2] + 1>>
compareValue(value, hashed) == hashed # NoPassword /\ hashed = hashValue(value)

AppError(kind, message) == [kind |-> kind, message |-> message]
BadRequestException(m)   == AppError("BadRequest", m)
NotFoundException(m)     == AppError("NotFound", m)
UnauthorizedException(m) == AppError("Unauthorized", m)
\* an error raised by the store or the driver for the awaited operation op
MongoError(op) == AppError("MongoError", op)
MongoTransactionError(m) == AppError("MongoTransactionError", m)

OwnerRole == [_id |-> "role-OWNER", name |-> "OWNER"]
SeededRoles ==
  { OwnerRole, [_id |-> "role-ADMIN", name |-> "ADMIN"],
    [_id |-> "role-MEMBER", name |-> "MEMBER"] }

EmptyStore == [users |-> {}, accounts |-> {}, workspaces |-> {}, members |-> {}]

\* ---------------------------------------------------------------- state
VARIABLES
  db,         \* committed store: users, accounts, workspaces, members
  roles,      \* committed Role collection (seed data)
  call,       \* call[p]: the service invoked in slot p and its argument
  pc,         \* pc[p]: the awaited operation slot p is suspended on
  session,    \* session[p]: ClientSession: transaction state, staged writes,
              \*             number of endSession calls
  local,      \* local[p]: the local variables user, account, workspace, ...
  result,     \* result[p]: what the caller of slot p received
  thrown,     \* thrown[p]: the first error raised inside slot p
  writes,     \* writes[p]: number of save operations slot p has issued
  doneBefore, \* doneBefore[p]: the calls that had returned when p was invoked
  faults,     \* number of store operations failed by the environment so far
  projects,   \* committed Project collection
  tasks       \* committed Task collection

vars == <<db, roles, call, pc, session, local, result, thrown, writes, doneBefore,
          faults, projects, tasks>>

NoSession == [txn |-> "NO_SESSION", ended |-> 0, staged |-> EmptyStore]
NoLocal   == [user |-> {}, account |-> {}, workspace |-> {}, ownerRole |-> {},
              modified |-> {}, project |-> {}, task |-> {}]
NoResult  == [status |-> "none", value |-> {}, error |-> {}]
NoCall    == [op |-> "none", data |-> {}]

Init ==
  /\ db = EmptyStore
  /\ roles \in {{}, SeededRoles}
  /\ call = [p \in Calls |-> NoCall]
  /\ pc = [p \in Calls |-> "idle"]
  /\ session = [p \in Calls |-> NoSession]
  /\ local = [p \in Calls |-> NoLocal]
  /\ result = [p \in Calls |-> NoResult]
  /\ thrown = [p \in Calls |-> {}]
  /\ writes = [p \in Calls |-> 0]
  /\ doneBefore = [p \in Calls |-> {}]
  /\ faults = 0
  /\ projects = {}
  /\ tasks = {}

Data(p) == CHOOSE d \in call[p].data : TRUE
Op(p)   == call[p].op
InFlight == {q \in Calls : pc[q] \notin {"idle", "done"}}
Returned == {q \in Calls : pc[q] = "done"}

\* slots are used in index order; at most MaxOpen calls are in flight
CanInvoke(p) ==
  /\ pc[p] = "idle"
  /\ \A q \in Calls : q < p => pc[q] # "idle"
  /\ Cardinality(InFlight) < MaxOpen

\* ------------------------------------------------------ store operations
\* Model.findOne({ email }): the filter is cast by the schema, so the
\* lookup is by the lowercased email
\* a lookup that compares the filter as given, without the schema's cast
FindUserByEmailUncast(users, email) == {u \in users : u.email = email}

FindUserByEmail(users, email) == {u \in users : u.email = Lowercase(email)}

\* a users collection without the unique index
UniqueEmailUnchecked(users, doc) == TRUE

\* unique: true of userSchema.email: no other user document has the email
UniqueEmail(users, doc) ==
  \A u \in users : u._id # doc._id => u.email # doc.email

\* Account: the pair (provider, providerId) identifies one user
UniqueAccount(accounts, doc) ==
  \A a \in accounts :
     a._id # doc._id => ~(a.provider = doc.provider /\ a.providerId = doc.providerId)

\* the staged documents of a session can be committed on top of store
CommitAllowed(store, staged) ==
  /\ \A u \in staged.users : UniqueEmail(store.users, u)
  /\ \A a \in staged.accounts : UniqueAccount(store.accounts, a)

\* commitTransaction makes every staged document durable at once; a staged
\* document replaces the committed one with the same _id
Merge(old, new) == {d \in old : \A n \in new : n._id # d._id} \cup new
ApplyCommit(store, staged) ==
  [users      |-> Merge(store.users, staged.users),
   accounts   |-> Merge(store.accounts, staged.accounts),
   workspaces |-> Merge(store.workspaces, staged.workspaces),
   members    |-> Merge(store.members, staged.members)]

\* doc.save({ session }): the document is staged in the session
Stage(s, coll, doc) ==
  [s EXCEPT !.staged[coll] = Merge(s.staged[coll], {doc})]

\* the paths of the user document that its constructor sets: a new document
\* counts them as modified until it is saved
NewUserPaths(op) ==
  IF op = "register" THEN {"email", "name", "password"}
                     ELSE {"email", "name", "profilePicture"}

\* this.isModified(path): the path was set since the document was last saved
isModified(modified, path) == path \in modified

\* a hook that hashes whatever password the document holds at every save
PreSaveRehash(user, passwordModified) ==
  IF user.password # NoPassword
    THEN [user EXCEPT !.password = hashValue(user.password)]
    ELSE user

\* userSchema.pre("save"): hash the password when it was modified and is set
PreSave(user, passwordModified) ==
  IF passwordModified
    THEN IF user.password # NoPassword
           THEN [user EXCEPT !.password = hashValue(user.password)]
           ELSE user
    ELSE user

\* the document handed back whole
omitPasswordKept(user) == user

\* userSchema.methods.omitPassword: the document without its password field
omitPassword(user) ==
  [f \in (DOMAIN user) \ {"password"} |-> user[f]]

\* a comparison that only asks whether a password is stored
comparePasswordAny(user, value) == user.password # NoPassword

\* userSchema.methods.comparePassword
comparePassword(user, value) == compareValue(Plain(value), user.password)

\* ------------------------------------------------------ control flow
\* the number of session.endSession() calls a service makes once the
\* transaction has ended: one in the try or catch block, and the finally
\* block of loginOrCreateAccountService runs one more
EndSessionCalls(op, inBlock) ==
  (IF inBlock THEN 1 ELSE 0) + (IF op = "loginOrCreate" THEN 1 ELSE 0)

\* an awaited operation inside the try block rejects with err: the catch
\* block runs and awaits session.abortTransaction()
Throw(p, err) ==
  /\ thrown' = [thrown EXCEPT ![p] = {err}]
  /\ pc' = [pc EXCEPT ![p] = "abortTransaction"]

\* an awaited store operation rejects: always when the store cannot accept
\* it (possible = FALSE), and otherwise when the environment fails it
\* (network, server, validation)
Fails(possible) ==
  /\ ~possible \/ faults < MaxFaults
  /\ faults' = IF possible THEN faults + 1 ELSE faults

\* the service returns value to its caller
Return(p, value) ==
  /\ result' = [result EXCEPT ![p] = [status |-> "ok", value |-> {value}, error |-> {}]]
  /\ pc' = [pc EXCEPT ![p] = "done"]

\* the service rejects with err
Reject(p, err) ==
  /\ result' = [result EXCEPT ![p] = [status |-> "error", value |-> {}, error |-> {err}]]
  /\ pc' = [pc EXCEPT ![p] = "done"]

\* the creation sequence with the workspace saved before the account
NextStepWorkspaceFirst(step) ==
  CASE step = "findUser"      -> "saveUser"
    [] step = "saveUser"      -> "saveWorkspace"
    [] step = "saveWorkspace" -> "saveAccount"
    [] step = "saveAccount"   -> "findOwnerRole"
    [] step = "findOwnerRole" -> "saveMember"
    [] step = "saveMember"    -> "updateUser"
    [] step = "updateUser"    -> "commitTransaction"

\* the order of the awaited operations of the creation sequence
NextStep(step) ==
  CASE step = "findUser"      -> "saveUser"
    [] step = "saveUser"      -> "saveAccount"
    [] step = "saveAccount"   -> "saveWorkspace"
    [] step = "saveWorkspace" -> "findOwnerRole"
    [] step = "findOwnerRole" -> "saveMember"
    [] step = "saveMember"    -> "updateUser"
    [] step = "updateUser"    -> "commitTransaction"

\* ------------------------------------------------------ invocations
\* startSession and startTransaction; the first await inside the try
\* block is UserModel.findOne
loginOrCreateAccountService(p, data) ==
  /\ CanInvoke(p)
  /\ call' = [call EXCEPT ![p] = [op |-> "loginOrCreate", data |-> {data}]]
  /\ session' = [session EXCEPT ![p] =
                   [txn |-> "TRANSACTION_IN_PROGRESS", ended |-> 0, staged |-> EmptyStore]]
  /\ pc' = [pc EXCEPT ![p] = "findUser"]
  /\ doneBefore' = [doneBefore EXCEPT ![p] = Returned]
  /\ UNCHANGED <<db, roles, local, result, thrown, writes, faults, projects, tasks>>

registerUserService(p, body) ==
  /\ CanInvoke(p)
  /\ call' = [call EXCEPT ![p] = [op |-> "register", data |-> {body}]]
  /\ session' = [session EXCEPT ![p] =
                   [txn |-> "TRANSACTION_IN_PROGRESS", ended |-> 0, staged |-> EmptyStore]]
  /\ pc' = [pc EXCEPT ![p] = "findUser"]
  /\ doneBefore' = [doneBefore EXCEPT ![p] = Returned]
  /\ UNCHANGED <<db, roles, local, result, thrown, writes, faults, projects, tasks>>

verifyUserService(p, params) ==
  /\ CanInvoke(p)
  /\ call' = [call EXCEPT ![p] = [op |-> "verify", data |-> {params}]]
  /\ pc' = [pc EXCEPT ![p] = "findAccount"]
  /\ doneBefore' = [doneBefore EXCEPT ![p] = Returned]
  /\ UNCHANGED <<db, roles, session, local, result, thrown, writes, faults, projects, tasks>>

\* ------------------------------------------------------ creation sequence
One(S) == IF S = {} THEN {} ELSE {CHOOSE x \in S : TRUE}
Range(f) == {f[i] : i \in DOMAIN f}
User(p)      == CHOOSE u \in local[p].user : TRUE
Workspace(p) == CHOOSE w \in local[p].workspace : TRUE

\* new UserModel({...}): email through the schema setter; the password is
\* the plaintext until the document is saved
NewUser(p, op, data) ==
  [_id |-> ObjectId("User", p),
   email |-> Lowercase(data.email),
   name |-> IF op = "register" THEN data.name ELSE data.displayName,
   password |-> IF op = "register" THEN Plain(data.password) ELSE NoPassword,
   profilePicture |-> IF op = "register" \/ data.picture = "" THEN "null" ELSE data.picture,
   currentWorkspace |-> NoId]

NewAccount(p, op, data, user) ==
  [_id |-> ObjectId("Account", p),
   userId |-> user._id,
   provider |-> IF op = "register" THEN "EMAIL" ELSE data.provider,
   providerId |-> IF op = "register" THEN data.email ELSE data.providerId]

NewWorkspace(p, user) ==
  [_id |-> ObjectId("Workspace", p), name |-> "My Workspace", description |-> user.name, owner |-> user._id]

\* a member that is given the workspace's owner as its workspace
NewMemberWrongWorkspace(p, user, workspace, ownerRole) ==
  [_id |-> ObjectId("Member", p), userId |-> user._id, workspaceId |-> workspace.owner, role |-> ownerRole._id]

NewMember(p, user, workspace, ownerRole) ==
  [_id |-> ObjectId("Member", p), userId |-> user._id, workspaceId |-> workspace._id, role |-> ownerRole._id]

\* UserModel.findOne({ email }).session(session) resolves
FindUser(p) ==
  /\ pc[p] = "findUser"
  /\ LET found == One(FindUserByEmail(db.users, Data(p).email)) IN
       IF found # {}
         THEN IF Op(p) = "register"
                THEN /\ Throw(p, BadRequestException("Email already exists"))
                     /\ UNCHANGED local
                ELSE /\ local' = [local EXCEPT ![p].user = found]
                     /\ pc' = [pc EXCEPT ![p] = "commitTransaction"]
                     /\ UNCHANGED thrown
         ELSE /\ local' = [local EXCEPT ![p].user = {NewUser(p, Op(p), Data(p))},
                                        ![p].modified = NewUserPaths(Op(p))]
              /\ pc' = [pc EXCEPT ![p] = NextStep("findUser")]
              /\ UNCHANGED thrown
  /\ UNCHANGED <<db, roles, call, session, result, writes, doneBefore, faults, projects, tasks>>

\* await user.save({ session }) of the new user
SaveUser(p) ==
  /\ pc[p] = "saveUser"
  /\ writes' = [writes EXCEPT ![p] = @ + 1]
  /\ LET doc == PreSave(User(p), isModified(local[p].modified, "password")) IN
       \/ /\ UniqueEmail(db.users, doc)
          /\ session' = [session EXCEPT ![p] = Stage(@, "users", doc)]
          /\ local' = [local EXCEPT ![p].user = {doc}, ![p].modified = {}]
          /\ pc' = [pc EXCEPT ![p] = NextStep("saveUser")]
          /\ UNCHANGED <<thrown, faults>>
       \/ /\ Fails(UniqueEmail(db.users, doc))
          /\ Throw(p, MongoError("user.save"))
          /\ UNCHANGED <<session, local>>
  /\ UNCHANGED <<db, roles, call, result, doneBefore, projects, tasks>>

\* await account.save({ session })
SaveAccount(p) ==
  /\ pc[p] = "saveAccount"
  /\ writes' = [writes EXCEPT ![p] = @ + 1]
  /\ LET doc == NewAccount(p, Op(p), Data(p), User(p)) IN
       \/ /\ UniqueAccount(db.accounts, doc)
          /\ session' = [session EXCEPT ![p] = Stage(@, "accounts", doc)]
          /\ local' = [local EXCEPT ![p].account = {doc}]
          /\ pc' = [pc EXCEPT ![p] = NextStep("saveAccount")]
          /\ UNCHANGED <<thrown, faults>>
       \/ /\ Fails(UniqueAccount(db.accounts, doc))
          /\ Throw(p, MongoError("account.save"))
          /\ UNCHANGED <<session, local>>
  /\ UNCHANGED <<db, roles, call, result, doneBefore, projects, tasks>>

\* workspace.save() without the session: the document is durable at once
SaveWorkspaceNoSession(p) ==
  /\ pc[p] = "saveWorkspace"
  /\ writes' = [writes EXCEPT ![p] = @ + 1]
  /\ LET doc == NewWorkspace(p, User(p)) IN
       \/ /\ db' = [db EXCEPT !.workspaces = Merge(@, {doc})]
          /\ local' = [local EXCEPT ![p].workspace = {doc}]
          /\ pc' = [pc EXCEPT ![p] = NextStep("saveWorkspace")]
          /\ UNCHANGED <<thrown, faults, session>>
       \/ /\ Fails(TRUE)
          /\ Throw(p, MongoError("workspace.save"))
          /\ UNCHANGED <<session, local, db>>
  /\ UNCHANGED <<roles, call, result, doneBefore, projects, tasks>>

\* await workspace.save({ session })
SaveWorkspace(p) ==
  /\ pc[p] = "saveWorkspace"
  /\ writes' = [writes EXCEPT ![p] = @ + 1]
  /\ LET doc == NewWorkspace(p, User(p)) IN
       \/ /\ session' = [session EXCEPT ![p] = Stage(@, "workspaces", doc)]
          /\ local' = [local EXCEPT ![p].workspace = {doc}]
          /\ pc' = [pc EXCEPT ![p] = NextStep("saveWorkspace")]
          /\ UNCHANGED <<thrown, faults>>
       \/ /\ Fails(TRUE)
          /\ Throw(p, MongoError("workspace.save"))
          /\ UNCHANGED <<session, local>>
  /\ UNCHANGED <<db, roles, call, result, doneBefore, projects, tasks>>

\* RoleModel.findOne({ name: Roles.OWNER }).session(session) resolves
FindOwnerRole(p) ==
  /\ pc[p] = "findOwnerRole"
  /\ LET ownerRole == One({r \in roles : r.name = "OWNER"}) IN
       IF ownerRole = {}
         THEN /\ Throw(p, NotFoundException("Owner role not found"))
              /\ UNCHANGED local
         ELSE /\ local' = [local EXCEPT ![p].ownerRole = ownerRole]
              /\ pc' = [pc EXCEPT ![p] = NextStep("findOwnerRole")]
              /\ UNCHANGED thrown
  /\ UNCHANGED <<db, roles, call, session, result, writes, doneBefore, faults, projects, tasks>>

\* await member.save({ session })
SaveMember(p) ==
  /\ pc[p] = "saveMember"
  /\ writes' = [writes EXCEPT ![p] = @ + 1]
  /\ LET doc == NewMember(p, User(p), Workspace(p),
                          CHOOSE r \in local[p].ownerRole : TRUE) IN
       \/ /\ session' = [session EXCEPT ![p] = Stage(@, "members", doc)]
          /\ pc' = [pc EXCEPT ![p] = NextStep("saveMember")]
          /\ UNCHANGED <<thrown, faults>>
       \/ /\ Fails(TRUE)
          /\ Throw(p, MongoError("member.save"))
          /\ UNCHANGED session
  /\ UNCHANGED <<db, roles, call, local, result, doneBefore, projects, tasks>>

\* user.currentWorkspace = workspace._id; await user.save({ session })
UpdateUser(p) ==
  /\ pc[p] = "updateUser"
  /\ writes' = [writes EXCEPT ![p] = @ + 1]
  /\ LET modified == local[p].modified \cup {"currentWorkspace"}
         doc == PreSave([User(p) EXCEPT !.currentWorkspace = Workspace(p)._id],
                        isModified(modified, "password")) IN
       \/ /\ session' = [session EXCEPT ![p] = Stage(@, "users", doc)]
          /\ local' = [local EXCEPT ![p].user = {doc}, ![p].modified = {}]
          /\ pc' = [pc EXCEPT ![p] = NextStep("updateUser")]
          /\ UNCHANGED <<thrown, faults>>
       \/ /\ Fails(TRUE)
          /\ Throw(p, MongoError("user.update"))
          /\ local' = [local EXCEPT
               ![p].user = {[User(p) EXCEPT !.currentWorkspace = Workspace(p)._id]},
               ![p].modified = modified]
          /\ UNCHANGED session
  /\ UNCHANGED <<db, roles, call, result, doneBefore, projects, tasks>>

\* ------------------------------------------------------ commit and abort
\* what the service returns after the commit
ReturnValue(p) ==
  IF Op(p) = "register"
    THEN [userId |-> User(p)._id, workspaceId |-> Workspace(p)._id]
    ELSE [user |-> User(p)]

\* await session.commitTransaction() settles.  Resolved: the staged
\* documents become durable, session.endSession() runs in the try block (and
\* again in the finally block of loginOrCreateAccountService) and the
\* service returns.  Rejected: nothing becomes durable, the driver leaves
\* the transaction in its committed state and the catch block runs.
CommitTransaction(p) ==
  /\ pc[p] = "commitTransaction"
  /\ \/ /\ CommitAllowed(db, session[p].staged)
        /\ db' = ApplyCommit(db, session[p].staged)
        /\ session' = [session EXCEPT ![p] =
             [txn |-> "TRANSACTION_COMMITTED",
              ended |-> @.ended + EndSessionCalls(Op(p), TRUE),
              staged |-> EmptyStore]]
        /\ Return(p, ReturnValue(p))
        /\ UNCHANGED <<thrown, faults>>
     \/ /\ session' = [session EXCEPT ![p].txn = "TRANSACTION_COMMITTED",
                                      ![p].staged = EmptyStore]
        /\ Fails(CommitAllowed(db, session[p].staged))
        /\ Throw(p, MongoError("commitTransaction"))
        /\ UNCHANGED <<db, result>>
  /\ UNCHANGED <<roles, call, local, writes, doneBefore, projects, tasks>>

\* catch (error) { await session.abortTransaction(); session.endSession();
\* throw error }.  The driver aborts a transaction in progress and discards
\* its staged documents; called after commitTransaction it rejects, and
\* that rejection leaves the catch block in place of the caught error.
AbortTransaction(p) ==
  /\ pc[p] = "abortTransaction"
  /\ IF session[p].txn = "TRANSACTION_IN_PROGRESS"
       THEN /\ session' = [session EXCEPT ![p] =
                 [txn |-> "TRANSACTION_ABORTED",
                  ended |-> @.ended + EndSessionCalls(Op(p), TRUE),
                  staged |-> EmptyStore]]
            /\ Reject(p, CHOOSE e \in thrown[p] : TRUE)
       ELSE /\ session' = [session EXCEPT ![p].ended =
                 @ + EndSessionCalls(Op(p), FALSE)]
            /\ Reject(p, MongoTransactionError(
                 "Cannot call abortTransaction after calling commitTransaction"))
  /\ UNCHANGED <<db, roles, call, local, thrown, writes, doneBefore, faults, projects, tasks>>

\* ------------------------------------------------------ verifyUserService
\* AccountModel.findOne({ provider, providerId: email }) resolves
FindAccount(p) ==
  /\ pc[p] = "findAccount"
  /\ LET account == One({a \in db.accounts :
                           /\ a.provider = Data(p).provider
                           /\ a.providerId = Data(p).email}) IN
       IF account = {}
         THEN /\ thrown' = [thrown EXCEPT ![p] = {NotFoundException("Invalid email or password")}]
              /\ Reject(p, NotFoundException("Invalid email or password"))
              /\ UNCHANGED local
         ELSE /\ local' = [local EXCEPT ![p].account = account]
              /\ pc' = [pc EXCEPT ![p] = "findUserById"]
              /\ UNCHANGED <<thrown, result>>
  /\ UNCHANGED <<db, roles, call, session, writes, doneBefore, faults, projects, tasks>>

\* UserModel.findById(account.userId) resolves
FindUserById(p) ==
  /\ pc[p] = "findUserById"
  /\ LET account == CHOOSE a \in local[p].account : TRUE
         user == One({u \in db.users : u._id = account.userId}) IN
       IF user = {}
         THEN /\ thrown' = [thrown EXCEPT ![p] = {NotFoundException("User not found for the given account")}]
              /\ Reject(p, NotFoundException("User not found for the given account"))
              /\ UNCHANGED local
         ELSE /\ local' = [local EXCEPT ![p].user = user]
              /\ pc' = [pc EXCEPT ![p] = "comparePassword"]
              /\ UNCHANGED <<thrown, result>>
  /\ UNCHANGED <<db, roles, call, session, writes, doneBefore, faults, projects, tasks>>

\* await user.comparePassword(password) resolves
ComparePassword(p) ==
  /\ pc[p] = "comparePassword"
  /\ LET isMatch == comparePassword(User(p), Data(p).password) IN
       IF ~isMatch
         THEN /\ thrown' = [thrown EXCEPT ![p] = {UnauthorizedException("Invalid email or password")}]
              /\ Reject(p, UnauthorizedException("Invalid email or password"))
         ELSE /\ Return(p, omitPassword(User(p)))
              /\ UNCHANGED thrown
  /\ UNCHANGED <<db, roles, call, session, local, writes, doneBefore, faults, projects, tasks>>

\* ------------------------------------------------------ specification
Next ==
  \E p \in Calls :
    \/ \E data \in LoginData : loginOrCreateAccountService(p, data)
    \/ \E body \in RegisterBodies : registerUserService(p, body)
    \/ \E params \in VerifyParams : verifyUserService(p, params)
    \/ FindUser(p)
    \/ SaveUser(p)
    \/ SaveAccount(p)
    \/ SaveWorkspace(p)
    \/ FindOwnerRole(p)
    \/ SaveMember(p)
    \/ UpdateUser(p)
    \/ CommitTransaction(p)
    \/ AbortTransaction(p)
    \/ FindAccount(p)
    \/ FindUserById(p)
    \/ ComparePassword(p)

Spec == Init /\ [][Next]_vars

\* ------------------------------------------------ projects and tasks
\* The project and task services run without a session: every awaited
\* store operation acts on the committed collections at once.

TaskStatusEnum   == {"BACKLOG", "TODO", "IN_PROGRESS", "IN_REVIEW", "DONE"}
TaskPriorityEnum == {"LOW", "MEDIUM", "HIGH"}

\* new ProjectModel({...}) of createProjectService
NewProject(i, userId, workspaceId, body) ==
  [_id |-> ObjectId("Project", i), name |-> body.name,
   workspace |-> workspaceId, createdBy |-> userId]

\* new TaskModel({...}) of createTaskService
NewTask(i, workspaceId, projectId, userId, body) ==
  [_id |-> ObjectId("Task", i),
   title |-> body.title,
   priority |-> IF body.priority = "" THEN "MEDIUM" ELSE body.priority,
   status |-> IF body.status = "" THEN "TODO" ELSE body.status,
   assignedTo |-> body.assignedTo,
   createdBy |-> userId,
   workspace |-> workspaceId,
   project |-> projectId]

\* the documents one successful onboarding call p leaves in the store
Onboarded(p, op, data) ==
  LET saved == PreSave(NewUser(p, op, data), isModified(NewUserPaths(op), "password"))
      user == [saved EXCEPT !.currentWorkspace = ObjectId("Workspace", p)]
      workspace == NewWorkspace(p, user) IN
    [users |-> {user},
     accounts |-> {NewAccount(p, op, data, user)},
     workspaces |-> {workspace},
     members |-> {NewMember(p, user, workspace, OwnerRole)}]

\* two onboarded users, each owner and only member of an own workspace
SeedStore ==
  LET a == Onboarded(1, "register", [email |-> "a@x", name |-> "Ann", password |-> "pw1"])
      b == Onboarded(2, "loginOrCreate",
                     [provider |-> "EMAIL", providerId |-> "a@x", displayName |-> "Bob",
                      email |-> "b@y", picture |-> ""]) IN
    [users |-> a.users \cup b.users,
     accounts |-> a.accounts \cup b.accounts,
     workspaces |-> a.workspaces \cup b.workspaces,
     members |-> a.members \cup b.members]

WorkspaceIds == {w._id : w \in SeedStore.workspaces}

\* one project in each workspace, created by the workspace's owner
SeedProjects ==
  {NewProject(i, ObjectId("User", i), ObjectId("Workspace", i), [name |-> "Project"]) :
     i \in {1, 2}}

\* a project id no project has
MissingProject == ObjectId("Project", 0)
ProjectIds == {pr._id : pr \in SeedProjects} \cup {MissingProject}

\* body of createTaskService
TaskBodies ==
  { [title |-> "t", priority |-> "", status |-> "", assignedTo |-> NoId],
    [title |-> "u", priority |-> "HIGH", status |-> "DONE",
     assignedTo |-> ObjectId("User", 1)] }

\* body of updateTaskService
UpdateBodies ==
  { [title |-> "v", priority |-> "LOW", status |-> "IN_PROGRESS", assignedTo |-> NoId] }

\* one task in the first workspace's project
SeedTasks ==
  {NewTask(0, ObjectId("Workspace", 1), ObjectId("Project", 1), ObjectId("User", 1),
           [title |-> "s", priority |-> "", status |-> "", assignedTo |-> NoId])}

\* task ids callers pass: the stored task and the one the first call may create
TaskIds == {ObjectId("Task", 0), ObjectId("Task", 1)}

TaskOps == {"createTask", "updateTask", "getTaskById", "deleteTask", "deleteProject"}

InitTask ==
  /\ db = SeedStore
  /\ roles = SeededRoles
  /\ call = [p \in Calls |-> NoCall]
  /\ pc = [p \in Calls |-> "idle"]
  /\ session = [p \in Calls |-> NoSession]
  /\ local = [p \in Calls |-> NoLocal]
  /\ result = [p \in Calls |-> NoResult]
  /\ thrown = [p \in Calls |-> {}]
  /\ writes = [p \in Calls |-> 0]
  /\ doneBefore = [p \in Calls |-> {}]
  /\ faults = 0
  /\ projects = SeedProjects
  /\ tasks = SeedTasks

createTaskService(p, workspaceId, projectId, userId, body) ==
  /\ CanInvoke(p)
  /\ call' = [call EXCEPT ![p] = [op |-> "createTask", data |-> {[workspaceId |-> workspaceId, projectId |-> projectId,
                         userId |-> userId, body |-> body]}]]
  /\ pc' = [pc EXCEPT ![p] = "findProjectById"]
  /\ UNCHANGED <<db, roles, session, local, result, thrown, writes, doneBefore, faults,
                 projects, tasks>>

updateTaskService(p, workspaceId, projectId, taskId, body) ==
  /\ CanInvoke(p)
  /\ call' = [call EXCEPT ![p] = [op |-> "updateTask", data |-> {[workspaceId |-> workspaceId, projectId |-> projectId,
                         taskId |-> taskId, body |-> body]}]]
  /\ pc' = [pc EXCEPT ![p] = "findProjectById"]
  /\ UNCHANGED <<db, roles, session, local, result, thrown, writes, doneBefore, faults,
                 projects, tasks>>

getTaskByIdService(p, workspaceId, projectId, taskId) ==
  /\ CanInvoke(p)
  /\ call' = [call EXCEPT ![p] = [op |-> "getTaskById", data |-> {[workspaceId |-> workspaceId, projectId |-> projectId,
                         taskId |-> taskId]}]]
  /\ pc' = [pc EXCEPT ![p] = "findProjectById"]
  /\ UNCHANGED <<db, roles, session, local, result, thrown, writes, doneBefore, faults,
                 projects, tasks>>

deleteTaskService(p, workspaceId, taskId) ==
  /\ CanInvoke(p)
  /\ call' = [call EXCEPT ![p] = [op |-> "deleteTask", data |-> {[workspaceId |-> workspaceId, taskId |-> taskId]}]]
  /\ pc' = [pc EXCEPT ![p] = "findOneAndDelete"]
  /\ UNCHANGED <<db, roles, session, local, result, thrown, writes, doneBefore, faults,
                 projects, tasks>>

deleteProjectService(p, workspaceId, projectId) ==
  /\ CanInvoke(p)
  /\ call' = [call EXCEPT ![p] = [op |-> "deleteProject", data |-> {[workspaceId |-> workspaceId, projectId |-> projectId]}]]
  /\ pc' = [pc EXCEPT ![p] = "findOneProject"]
  /\ UNCHANGED <<db, roles, session, local, result, thrown, writes, doneBefore, faults,
                 projects, tasks>>

\* throw err out of a service that has no catch block
ThrowToCaller(p, err) ==
  /\ thrown' = [thrown EXCEPT ![p] = {err}]
  /\ Reject(p, err)

\* the project check with the workspace comparison left out
ProjectInAnyWorkspace(project, workspaceId) ==
  project # {}

\* !(!project || project.workspace.toString() !== workspaceId.toString())
ProjectInWorkspace(project, workspaceId) ==
  /\ project # {}
  /\ \A pr \in project : pr.workspace = workspaceId

\* ProjectModel.findById(projectId) resolves, and the check after it
FindProjectById(p) ==
  /\ pc[p] = "findProjectById"
  /\ LET project == One({pr \in projects : pr._id = Data(p).projectId}) IN
       IF ~ProjectInWorkspace(project, Data(p).workspaceId)
         THEN /\ ThrowToCaller(p, NotFoundException("Project not found or does not belong to this workspace"))
              /\ UNCHANGED local
         ELSE /\ local' = [local EXCEPT ![p].project = project]
              /\ pc' = [pc EXCEPT ![p] =
                          CASE Op(p) = "createTask" ->
                                 IF Data(p).body.assignedTo # NoId THEN "memberExists"
                                                                   ELSE "saveTask"
                            [] Op(p) = "updateTask" -> "findTaskById"
                            [] OTHER -> "findOneTask"]
              /\ UNCHANGED <<thrown, result>>
  /\ UNCHANGED <<db, roles, call, session, writes, doneBefore, faults, projects, tasks>>

\* MemberModel.exists({ userId: assignedTo, workspaceId }) resolves
MemberExists(p) ==
  /\ pc[p] = "memberExists"
  /\ LET isAssignedUserMember ==
           \E m \in db.members : /\ m.userId = Data(p).body.assignedTo
                                 /\ m.workspaceId = Data(p).workspaceId IN
       IF ~isAssignedUserMember
         THEN ThrowToCaller(p, AppError("Error", "Assigned user is not a member of this workspace."))
         ELSE /\ pc' = [pc EXCEPT ![p] = "saveTask"]
              /\ UNCHANGED <<thrown, result>>
  /\ UNCHANGED <<db, roles, call, session, local, writes, doneBefore, faults, projects, tasks>>

\* task.save() resolves; return { task }
SaveTask(p) ==
  /\ pc[p] = "saveTask"
  /\ LET task == NewTask(p, Data(p).workspaceId, Data(p).projectId, Data(p).userId,
                         Data(p).body) IN
       /\ tasks' = tasks \cup {task}
       /\ local' = [local EXCEPT ![p].task = {task}]
       /\ Return(p, task)
  /\ writes' = [writes EXCEPT ![p] = @ + 1]
  /\ UNCHANGED <<db, roles, call, session, thrown, doneBefore, faults, projects>>

\* TaskModel.findById(taskId) resolves, and the check after it
FindTaskById(p) ==
  /\ pc[p] = "findTaskById"
  /\ LET task == One({t \in tasks : t._id = Data(p).taskId}) IN
       IF task = {} \/ \E t \in task : t.project # Data(p).projectId
         THEN /\ ThrowToCaller(p, NotFoundException("Task not found or does not belong to this project"))
              /\ UNCHANGED local
         ELSE /\ local' = [local EXCEPT ![p].task = task]
              /\ pc' = [pc EXCEPT ![p] = "findByIdAndUpdate"]
              /\ UNCHANGED <<thrown, result>>
  /\ UNCHANGED <<db, roles, call, session, writes, doneBefore, faults, projects, tasks>>

\* { ...body } applied to a task document
Updated(task, body) ==
  [task EXCEPT !.title = body.title, !.priority = body.priority,
               !.status = body.status,
               !.assignedTo = IF body.assignedTo = NoId THEN @ ELSE body.assignedTo]

\* TaskModel.findByIdAndUpdate(taskId, { ...body }, { new: true }) resolves
FindByIdAndUpdate(p) ==
  /\ pc[p] = "findByIdAndUpdate"
  /\ LET task == One({t \in tasks : t._id = Data(p).taskId}) IN
       IF task = {}
         THEN /\ ThrowToCaller(p, BadRequestException("Failed to update task"))
              /\ UNCHANGED <<tasks, writes>>
         ELSE LET updatedTask == Updated(CHOOSE t \in task : TRUE, Data(p).body) IN
                /\ tasks' = (tasks \ task) \cup {updatedTask}
                /\ writes' = [writes EXCEPT ![p] = @ + 1]
                /\ Return(p, updatedTask)
                /\ UNCHANGED thrown
  /\ UNCHANGED <<db, roles, call, session, local, doneBefore, faults, projects>>

\* TaskModel.findOne({ _id, workspace, project }) resolves (getTaskById)
FindOneTask(p) ==
  /\ pc[p] = "findOneTask"
  /\ LET task == One({t \in tasks : /\ t._id = Data(p).taskId
                                    /\ t.workspace = Data(p).workspaceId
                                    /\ t.project = Data(p).projectId}) IN
       IF task = {}
         THEN ThrowToCaller(p, NotFoundException("Task not found."))
         ELSE /\ Return(p, CHOOSE t \in task : TRUE)
              /\ UNCHANGED thrown
  /\ UNCHANGED <<db, roles, call, session, local, writes, doneBefore, faults, projects, tasks>>

\* TaskModel.findOneAndDelete({ _id: taskId, workspace: workspaceId }) resolves
FindOneAndDelete(p) ==
  /\ pc[p] = "findOneAndDelete"
  /\ LET task == One({t \in tasks : /\ t._id = Data(p).taskId
                                    /\ t.workspace = Data(p).workspaceId}) IN
       IF task = {}
         THEN /\ ThrowToCaller(p, NotFoundException("Task not found or does not belong to the specified workspace"))
              /\ UNCHANGED <<tasks, writes>>
         ELSE /\ tasks' = tasks \ task
              /\ writes' = [writes EXCEPT ![p] = @ + 1]
              /\ Return(p, "undefined")
              /\ UNCHANGED thrown
  /\ UNCHANGED <<db, roles, call, session, local, doneBefore, faults, projects>>

\* ProjectModel.findOne({ _id: projectId, workspace: workspaceId }) resolves
\* (deleteProject)
FindOneProject(p) ==
  /\ pc[p] = "findOneProject"
  /\ LET project == One({pr \in projects : /\ pr._id = Data(p).projectId
                                           /\ pr.workspace = Data(p).workspaceId}) IN
       IF project = {}
         THEN /\ ThrowToCaller(p, NotFoundException("Project not found or does not belong to the specified workspace"))
              /\ UNCHANGED local
         ELSE /\ local' = [local EXCEPT ![p].project = project]
              /\ pc' = [pc EXCEPT ![p] = "deleteOne"]
              /\ UNCHANGED <<thrown, result>>
  /\ UNCHANGED <<db, roles, call, session, writes, doneBefore, faults, projects, tasks>>

\* project.deleteOne() resolves
DeleteOne(p) ==
  /\ pc[p] = "deleteOne"
  /\ projects' = {pr \in projects : \A project \in local[p].project : pr._id # project._id}
  /\ writes' = [writes EXCEPT ![p] = @ + 1]
  /\ pc' = [pc EXCEPT ![p] = "deleteMany"]
  /\ UNCHANGED <<db, roles, call, session, local, result, thrown, doneBefore, faults, tasks>>

\* TaskModel.deleteMany({ project: project._id }) resolves; return project
DeleteMany(p) ==
  /\ pc[p] = "deleteMany"
  /\ LET project == CHOOSE pr \in local[p].project : TRUE IN
       /\ tasks' = {t \in tasks : t.project # project._id}
       /\ Return(p, project)
  /\ writes' = [writes EXCEPT ![p] = @ + 1]
  /\ UNCHANGED <<db, roles, call, session, local, thrown, doneBefore, faults, projects>>

NextTask ==
  \E p \in Calls :
    \/ \E w \in WorkspaceIds, pr \in ProjectIds, body \in TaskBodies :
         createTaskService(p, w, pr, ObjectId("User", 1), body)
    \/ \E w \in WorkspaceIds, pr \in ProjectIds, t \in TaskIds, body \in UpdateBodies :
         updateTaskService(p, w, pr, t, body)
    \/ \E w \in WorkspaceIds, pr \in ProjectIds, t \in {tk._id : tk \in SeedTasks} :
         getTaskByIdService(p, w, pr, t)
    \/ \E w \in WorkspaceIds, t \in TaskIds : deleteTaskService(p, w, t)
    \/ \E w \in WorkspaceIds, pr \in ProjectIds : deleteProjectService(p, w, pr)
    \/ FindProjectById(p)
    \/ MemberExists(p)
    \/ SaveTask(p)
    \/ FindTaskById(p)
    \/ FindByIdAndUpdate(p)
    \/ FindOneTask(p)
    \/ FindOneAndDelete(p)
    \/ FindOneProject(p)
    \/ DeleteOne(p)
    \/ DeleteMany(p)

SpecTask == InitTask /\ [][NextTask]_vars

\* ------------------------------------------------------ properties
Collections == {"users", "accounts", "workspaces", "members"}
Onboarding(p) == Op(p) \in {"loginOrCreate", "register"}
Done(p)    == pc[p] = "done"
Ok(p)      == Done(p) /\ result[p].status = "ok"
Failed(p)  == Done(p) /\ result[p].status = "error"
Value(p)   == CHOOSE v \in result[p].value : TRUE
\* the documents of the committed store that call p created
NoDocsBy(p) == \A c \in Collections : \A d \in db[c] : d._id[2] # p
\* the call took the creation branch: it issued at least one save
Creating(p) == Onboarding(p) /\ writes[p] > 0
SameEmail(p, q) == Lowercase(Data(p).email) = Lowercase(Data(q).email)

\* C1: a register or login-or-create invocation that fails, at whatever
\* step, leaves no User, Account, Workspace or Member of its own in the
\* committed store, and no step of an invocation other than its successful
\* commit changes the committed store.
C1_FailedCreationRolledBack ==
  /\ [](\A p \in Calls : Onboarding(p) /\ ~Ok(p) => NoDocsBy(p))
  /\ [][db' # db =>
          \E p \in Calls : /\ pc[p] = "commitTransaction"
                           /\ result'[p].status = "ok"
                           /\ db' = ApplyCommit(db, session[p].staged)]_vars

\* a creation that had staged its workspace (three saves or more) failed,
\* while the store holds documents of another call
C1_Witness ==
  \E p \in Calls :
    /\ Onboarding(p) /\ Failed(p) /\ writes[p] >= 3
    /\ db.users # {}

\* C2: after a successful register or login-or-create creation, exactly one
\* Workspace, one Account and one Member reference the new user; the member
\* has the OWNER role and that workspace, and the user's currentWorkspace is
\* that workspace.
C2_BootstrapComplete ==
  \A p \in Calls :
    Creating(p) /\ Ok(p) =>
      LET uid == ObjectId("User", p)
          us  == {u \in db.users : u._id = uid}
          ws  == {w \in db.workspaces : w.owner = uid}
          as  == {a \in db.accounts : a.userId = uid}
          ms  == {m \in db.members : m.userId = uid}
      IN /\ Cardinality(us) = 1
         /\ Cardinality(ws) = 1
         /\ Cardinality(as) = 1
         /\ Cardinality(ms) = 1
         /\ \A m \in ms : /\ m.role = OwnerRole._id
                          /\ \E w \in ws : m.workspaceId = w._id
         /\ \A u \in us : \E w \in ws : u.currentWorkspace = w._id
         /\ IF Op(p) = "register"
              THEN /\ Value(p).userId = uid
                   /\ \E w \in ws : Value(p).workspaceId = w._id
              ELSE Value(p).user \in us

\* a register and a login-or-create have both created their user
C2_Witness ==
  \E p, q \in Calls :
    /\ Op(p) = "register" /\ Op(q) = "loginOrCreate"
    /\ Creating(p) /\ Ok(p) /\ Creating(q) /\ Ok(q)

UsersWithEmail(email) == {u \in db.users : u.email = Lowercase(email)}

\* C3: a register for an email that an earlier, successful register used
\* fails with BadRequest, writes nothing, and the store holds exactly one
\* User with that email.
C3_SecondRegisterRejected ==
  \A p, q \in Calls :
    /\ Op(p) = "register" /\ Ok(p)
    /\ Op(q) = "register" /\ Done(q) /\ p \in doneBefore[q]
    /\ SameEmail(p, q)
    => /\ result[q].status = "error"
       /\ result[q].error = {BadRequestException("Email already exists")}
       /\ writes[q] = 0
       /\ NoDocsBy(q)
       /\ Cardinality(UsersWithEmail(Data(q).email)) = 1

\* the body "A@x" was registered twice in sequence
C3_Witness ==
  \E p, q \in Calls :
    /\ Op(p) = "register" /\ Ok(p)
    /\ Op(q) = "register" /\ Done(q) /\ p \in doneBefore[q]
    /\ Data(p).email = "A@x" /\ Data(q).email = "A@x"

\* C4: a login-or-create for an email that an earlier, successful
\* login-or-create used issues no save, commits nothing of its own, and
\* returns the stored User with the id the first call returned, whatever
\* provider, provider id, display name and picture it is given; it can only
\* fail when its commit is failed by the store.
C4_SecondLoginIdempotent ==
  \A p, q \in Calls :
    /\ Op(p) = "loginOrCreate" /\ Ok(p)
    /\ Op(q) = "loginOrCreate" /\ Done(q) /\ p \in doneBefore[q]
    /\ SameEmail(p, q)
    => /\ writes[q] = 0
       /\ NoDocsBy(q)
       /\ Ok(q) => /\ Value(q).user._id = Value(p).user._id
                   /\ Value(q).user \in db.users
       /\ Failed(q) => thrown[q] = {MongoError("commitTransaction")}

\* the second call came with another provider, provider id, name, picture
\* and spelling of the email, and returned
C4_Witness ==
  \E p, q \in Calls :
    /\ Op(p) = "loginOrCreate" /\ Ok(p) /\ Creating(p)
    /\ Op(q) = "loginOrCreate" /\ Ok(q) /\ p \in doneBefore[q]
    /\ SameEmail(p, q)
    /\ Data(p).provider # Data(q).provider
    /\ Data(p).email # Data(q).email

\* C5: verify with the email and password of an earlier, successful
\* register succeeds and returns that User: its email is the registered one
\* as the store keeps it (lowercased) and it has no password field.
C5_RegisterThenVerify ==
  \A p, q \in Calls :
    /\ Op(p) = "register" /\ Ok(p)
    /\ Op(q) = "verify" /\ Done(q) /\ p \in doneBefore[q]
    /\ Data(q).email = Data(p).email
    /\ Data(q).password = Data(p).password
    /\ Data(q).provider = "EMAIL"
    => /\ result[q].status = "ok"
       /\ Value(q)._id = Value(p).userId
       /\ Value(q).email = Lowercase(Data(p).email)
       /\ "password" \notin DOMAIN Value(q)

\* "A@x" was registered and then verified with its password
C5_Witness ==
  \E p, q \in Calls :
    /\ Op(p) = "register" /\ Ok(p)
    /\ Op(q) = "verify" /\ Ok(q) /\ p \in doneBefore[q]
    /\ Data(p).email = "A@x" /\ Data(q).email = "A@x"

\* verify q came after the successful register p, with p's email and
\* another password
WrongPassword(p, q) ==
  /\ Op(p) = "register" /\ Ok(p)
  /\ Op(q) = "verify" /\ Done(q) /\ p \in doneBefore[q]
  /\ Data(q).email = Data(p).email
  /\ Data(q).password # Data(p).password
\* verify q returned and the store has no Account for its provider and email
NoSuchAccount(q) ==
  /\ Op(q) = "verify" /\ Done(q)
  /\ \A a \in db.accounts :
       ~(a.provider = Data(q).provider /\ a.providerId = Data(q).email)

\* C6: verify with a registered email and a wrong password fails with
\* Unauthorized, verify with an email that has no Account fails with
\* NotFound, neither returns a User, and every failed verify carries the
\* same message.
C6_VerifyFailures ==
  /\ \A p, q \in Calls :
       WrongPassword(p, q) =>
         /\ Failed(q) /\ result[q].value = {}
         /\ \A e \in result[q].error : e.kind = "Unauthorized"
  /\ \A q \in Calls :
       NoSuchAccount(q) =>
         /\ Failed(q) /\ result[q].value = {}
         /\ \A e \in result[q].error : e.kind = "NotFound"
  /\ \A q, r \in Calls :
       /\ Op(q) = "verify" /\ Failed(q)
       /\ Op(r) = "verify" /\ Failed(r)
       => \A e \in result[q].error, f \in result[r].error : e.message = f.message

\* one verify failed on the password and another on the missing account
C6_Witness ==
  \E p, q, r \in Calls :
    /\ WrongPassword(p, q)
    /\ NoSuchAccount(r)

\* C7: every register and login-or-create invocation calls endSession on
\* its session exactly once before it returns, on every exit path.
C7_SessionEndedOnce ==
  \A p \in Calls : Onboarding(p) /\ Done(p) => session[p].ended = 1

\* C8: the committed store never holds two Users with one email, nor two
\* Accounts, Workspaces or Members for one User; of two login-or-create
\* calls that both take the creation branch for the same email at most one
\* commits and the other leaves nothing; a login-or-create re-run after
\* both returned issues no save and returns the winner's User.
C8_ConcurrentCreationOneWinner ==
  /\ \A u, v \in db.users : u.email = v.email => u = v
  /\ \A u \in db.users :
       /\ Cardinality({a \in db.accounts : a.userId = u._id}) <= 1
       /\ Cardinality({w \in db.workspaces : w.owner = u._id}) <= 1
       /\ Cardinality({m \in db.members : m.userId = u._id}) <= 1
  /\ \A p, q \in Calls :
       /\ p # q
       /\ Op(p) = "loginOrCreate" /\ Creating(p) /\ Ok(p)
       /\ Op(q) = "loginOrCreate" /\ Creating(q) /\ Done(q)
       /\ SameEmail(p, q)
       => /\ Failed(q)
          /\ NoDocsBy(q)
          /\ \A r \in Calls :
               /\ Op(r) = "loginOrCreate" /\ SameEmail(r, p)
               /\ {p, q} \subseteq doneBefore[r] /\ Done(r)
               => /\ writes[r] = 0
                  /\ Ok(r) => Value(r).user._id = ObjectId("User", p)

\* two login-or-create calls both created a user for one email, the store
\* failed no operation on its own, one call committed and the other failed,
\* and the re-run returned the winner's user
C8_Witness ==
  \E p, q, r \in Calls :
    /\ p # q /\ faults = 0
    /\ Op(p) = "loginOrCreate" /\ Creating(p) /\ Ok(p)
    /\ Op(q) = "loginOrCreate" /\ Creating(q) /\ Failed(q)
    /\ SameEmail(p, q)
    /\ Op(r) = "loginOrCreate" /\ SameEmail(r, p) /\ q \in doneBefore[r]
    /\ Ok(r) /\ Value(r).user._id = ObjectId("User", p)

\* C9: a failed login-or-create, register or verify hands its caller the
\* error that was raised at the failing step, unchanged.
C9_OriginatingErrorReachesCaller ==
  \A p \in Calls : Failed(p) => result[p].error = thrown[p]

\* the awaited operations of the creation sequence, in the order claimed
CreationSequence ==
  <<"findUser", "saveUser", "saveAccount", "saveWorkspace", "findOwnerRole",
    "saveMember", "updateUser", "commitTransaction">>
Pos(step) == CHOOSE i \in 1..Len(CreationSequence) : CreationSequence[i] = step

\* what call p has staged when it is suspended on a step of the sequence:
\* exactly the documents of the steps before it, each referring to ids of
\* documents staged before it
StagedInOrder(p) ==
  LET i  == Pos(pc[p])
      st == session[p].staged
      existing == pc[p] = "commitTransaction" /\ writes[p] = 0
  IN /\ st.users = IF i > 2 /\ ~existing THEN local[p].user ELSE {}
     /\ \A u \in st.users :
          /\ u._id = ObjectId("User", p)
          /\ u.currentWorkspace =
               IF i > 7 THEN ObjectId("Workspace", p) ELSE NoId
     /\ Cardinality(st.accounts) = IF i > 3 /\ ~existing THEN 1 ELSE 0
     /\ \A a \in st.accounts : \E u \in st.users : a.userId = u._id
     /\ Cardinality(st.workspaces) = IF i > 4 /\ ~existing THEN 1 ELSE 0
     /\ \A w \in st.workspaces : \E u \in st.users : w.owner = u._id
     /\ i > 5 /\ ~existing => local[p].ownerRole # {}
     /\ Cardinality(st.members) = IF i > 6 /\ ~existing THEN 1 ELSE 0
     /\ \A m \in st.members :
          /\ \E u \in st.users : m.userId = u._id
          /\ \E w \in st.workspaces : m.workspaceId = w._id
          /\ \E r \in local[p].ownerRole : m.role = r._id
     /\ writes[p] = IF existing THEN 0
                    ELSE Cardinality({j \in 2..(i - 1) : j # 5})

\* C10: an invocation moves through User save, Account save, Workspace
\* save, OWNER lookup, Member save, User update and commit in that order,
\* one at a time (or leaves the sequence for the catch block), and each
\* document is staged only after the documents whose ids it holds.
C10_CreationOrder ==
  /\ [](\A p \in Calls :
          Onboarding(p) /\ pc[p] \in Range(CreationSequence) => StagedInOrder(p))
  /\ [][\A p \in Calls :
          /\ pc[p] \in Range(CreationSequence)
          /\ pc'[p] # pc[p]
          /\ pc'[p] # "abortTransaction"
          => \/ /\ pc[p] # "commitTransaction"
                /\ pc'[p] = CreationSequence[Pos(pc[p]) + 1]
             \/ /\ pc[p] = "findUser" /\ pc'[p] = "commitTransaction"
                /\ Op(p) = "loginOrCreate"
                /\ local'[p].user # {} /\ local'[p].user \subseteq db.users
             \/ /\ pc[p] = "commitTransaction" /\ pc'[p] = "done"]_vars

\* a creation ran through all five saves and committed
C10_Witness ==
  \E p \in Calls : Creating(p) /\ Ok(p) /\ writes[p] = 5

\* every user document written to the store, staged or committed
WrittenUsers ==
  db.users \cup UNION {session[p].staged.users : p \in Calls}

\* C11: a password written to a User is hash(plaintext) applied exactly
\* once, never the plaintext and never a hash of the hash, also after the
\* second save of register; a User created by login-or-create has no
\* password stored.
C11_PasswordHashedOnce ==
  /\ \A u \in WrittenUsers : u.password # NoPassword => u.password[2] = 1
  /\ \A p \in Calls : \A u \in WrittenUsers :
       u._id = ObjectId("User", p) =>
         u.password = IF Op(p) = "register"
                        THEN hashValue(Plain(Data(p).password))
                        ELSE NoPassword

\* a register committed its user after both saves, and a login-or-create
\* committed a user as well
C11_Witness ==
  \E p, q \in Calls :
    /\ Op(p) = "register" /\ Ok(p) /\ writes[p] = 5
    /\ \E u \in db.users : u._id = ObjectId("User", p) /\ u.currentWorkspace # NoId
    /\ Op(q) = "loginOrCreate" /\ Ok(q) /\ Creating(q)

\* C12: once deleteProjectService has completed for project P, no Task whose
\* project is P exists in the store, whatever createTask and updateTask calls
\* on P ran concurrently with it
C12_DeletedProjectHasNoTasks ==
  \A p \in Calls :
    Op(p) = "deleteProject" /\ Ok(p) =>
      \A t \in tasks : t.project # Data(p).projectId

\* the workspace a project was created in (no service changes it)
WorkspaceOfProject(projectId) ==
  {pr.workspace : pr \in {x \in SeedProjects : x._id = projectId}}

\* the project and the workspace a task id was stored with, if it ever was
CreatorsOf(taskId) ==
  {c \in Calls : Op(c) = "createTask" /\ ObjectId("Task", c) = taskId}
ProjectOfTask(taskId) ==
  {t.project : t \in {x \in SeedTasks : x._id = taskId}}
    \cup {Data(c).projectId : c \in CreatorsOf(taskId)}
WorkspaceOfTask(taskId) ==
  {t.workspace : t \in {x \in SeedTasks : x._id = taskId}}
    \cup {Data(c).workspaceId : c \in CreatorsOf(taskId)}

NotFoundUnchanged(p) ==
  /\ Failed(p)
  /\ \A e \in result[p].error : e.kind = "NotFound"
  /\ writes[p] = 0

TaskProjectInWorkspace ==
  \A t \in tasks : WorkspaceOfProject(t.project) = {t.workspace}

ForeignProjectRejected ==
  \A p \in Calls :
    /\ Done(p)
    /\ Op(p) \in {"createTask", "updateTask", "getTaskById"}
    /\ Data(p).workspaceId \notin WorkspaceOfProject(Data(p).projectId)
    => NotFoundUnchanged(p)

TaskOutsideProjectRejected ==
  \A p \in Calls :
    /\ Done(p)
    /\ Op(p) = "updateTask"
    /\ Data(p).projectId \notin ProjectOfTask(Data(p).taskId)
    => NotFoundUnchanged(p)

ForeignTaskNotDeleted ==
  \A p \in Calls :
    /\ Done(p)
    /\ Op(p) = "deleteTask"
    /\ Data(p).workspaceId \notin WorkspaceOfTask(Data(p).taskId)
    => NotFoundUnchanged(p)

\* every task a step adds, changes or removes is of the workspace the
\* stepping call was invoked with
OwnWorkspaceStep ==
  \A t \in (tasks \ tasks') \cup (tasks' \ tasks) :
    \E p \in Calls : /\ pc'[p] # pc[p]
                     /\ Op(p) \in TaskOps
                     /\ t.workspace = Data(p).workspaceId

TypeOK ==
  /\ \A a \in db.accounts : a.provider \in ProviderEnum
  /\ \A p \in Calls : session[p].ended \in 0..2
  /\ faults \in 0..MaxFaults
  /\ \A t \in tasks : t.status \in TaskStatusEnum /\ t.priority \in TaskPriorityEnum

====
